---- MODULE Spec2Model ----
(***************************************************************************)
(* Scroll-driven background cross-fade of main.js (src/unnamed/part_000).  *)
(*                                                                         *)
(* The file holds two complete copies of the script, one after the other   *)
(* (lines 14-240 and lines 254-597).  Both run when the page loads, so a   *)
(* page gets up to four IntersectionObserver controllers:                  *)
(*    G1  first copy,  global variant    (lines 167-204)                   *)
(*    C1  first copy,  chapters variant  (lines 206-237)                   *)
(*    G2  second copy, globalBG          (lines 431-478)                   *)
(*    C2  second copy, chaptersBG        (lines 481-572)                   *)
(* G1 and G2 write the same two .g-bg layers, C1 and C2 the same two       *)
(* .chapters-bg layers; every controller closes over its own useA flag.    *)
(*                                                                         *)
(* A string is a sequence of atoms (pieces of text that share no           *)
(* characters), so that String.includes is sub-sequence search.            *)
(***************************************************************************)
EXTENDS Naturals, Sequences, FiniteSets

(* ------------------------------ bounds -------------------------------- *)
\* most .bg-chapter markers on a page
MaxGlobalMarkers == 3
\* most authored .chapter markers on a page
MaxChapterMarkers == 2
\* most .chap-content panels on a page
MaxPanels == 2

(* ------------------------------ strings ------------------------------- *)
BLACK == <<"background-photos/", "black.jpeg">>
WHITE == <<"background-photos/", "white.jpeg">>
\* a relative URL that is a proper substring of BLACK
SHORT == <<"black.jpeg">>
EMPTY == <<>>
\* the values a data-bg attribute takes (EMPTY: attribute missing or "")
URLs == {EMPTY, BLACK, WHITE, SHORT}

\* the values a data-tint attribute takes ("" : attribute missing or "")
NoTint == ""
Tints == {"rgba(59,130,246,.10)"}
TintAttrs == Tints \cup {NoTint}

\* a missing attribute where it differs from the empty one (panel data-idx)
Null == "<null>"
\* a marker's inline style.height ("" while unset); no stylesheet belongs to
\* the sources, so an unset one is a marker without height
NoHeight == ""
AuthoredHeights == {NoHeight, "200px"}

Layers == {"A", "B"}
Controllers == {"G1", "C1", "G2", "C2"}

\* `url('${url}')`
CssUrl(url) == <<"url('">> \o url \o <<"')">>

\* String.prototype.includes
Includes(s, sub) ==
  \E i \in 1..(Len(s) + 1) :
      /\ i + Len(sub) - 1 <= Len(s)
      /\ SubSeq(s, i, i + Len(sub) - 1) = sub

\* the `if (!url) return` guard left out
FalsyGuardDropped(url) == FALSE
\* !url for a data-bg value: null or ""
Falsy(url) == url = EMPTY
\* !v for a data-tint, data-idx or dataset value: null, undefined or ""
FalsyAttr(v) == v = "" \/ v = Null
\* String(i + 1) for a panel position
IdxStr(n) == <<"1", "2", "3", "4", "5", "6", "7", "8", "9">>[n]

\* a callback that handles every entry it is handed
NotEnteredUnchecked(isIntersecting) == FALSE

\* if (!e.isIntersecting) return
NotEntered(isIntersecting) == ~isIntersecting

\* active = useA ? layerA : layerB
ActiveOf(flag) == IF flag THEN "A" ELSE "B"
\* inactive = useA ? layerB : layerA
InactiveOf(flag) == IF flag THEN "B" ELSE "A"

(* ------------------------------- state -------------------------------- *)
VARIABLES
  pc,             \* "load": the script has not run; "ready": it has
  prefersReduced, \* matchMedia('(prefers-reduced-motion: reduce)').matches
  globalRoot,     \* a .global-bg element exists
  gHas,           \* gHas[l]: .g-bgA / .g-bgB exists
  overlay,        \* a .g-overlay element exists
  gImg,           \* gImg[l]: style.backgroundImage of .g-bgA / .g-bgB
  gAct,           \* gAct[l]: .g-bgA / .g-bgB carries class is-active
  gTint,          \* the overlay's --bg-tint property ("" while unset)
  globalMarkers,  \* the .bg-chapter elements in document order
  chapters,       \* a .chapters element exists
  cHas,           \* cHas[l]: .chapters-bgA / .chapters-bgB exists
  cImg,           \* cImg[l]: style.backgroundImage of .chapters-bgA / -bgB
  cAct,           \* cAct[l]: .chapters-bgA / -bgB carries class is-active
  dsActive,       \* chapters.dataset.active ("" while unset)
  panels,         \* the .chap-content elements in document order
  markers,        \* the .chapter elements in document order
  useA,           \* useA[c]: controller c's closure variable useA
  observing,      \* observing[c]: controller c's observer watches its markers
  preloads,       \* the URLs handed to new Image().src by the last step
  inflight,       \* TRUE while some Image request has not settled
  ev              \* the notification the last step handled

domVars == <<globalRoot, gHas, overlay, globalMarkers, chapters, cHas, panels, markers>>
vars == <<pc, prefersReduced, globalRoot, gHas, overlay, gImg, gAct, gTint,
          globalMarkers, chapters, cHas, cImg, cAct, dsActive, panels, markers,
          useA, observing, preloads, inflight, ev>>

NoEvent == [ctl |-> "", kind |-> "none", url |-> EMPTY, tint |-> NoTint, idx |-> ""]
Event(c, isIntersecting, m) ==
  [ctl |-> c, kind |-> IF isIntersecting THEN "entry" ELSE "exit",
   url |-> m.bg, tint |-> m.tint, idx |-> m.idx]

(* --------------------------- the pages checked ------------------------ *)
RECURSIVE SeqOf(_)
\* the elements of a finite set, in one fixed order
SeqOf(S) == IF S = {} THEN <<>>
            ELSE LET x == CHOOSE y \in S : TRUE IN <<x>> \o SeqOf(S \ {x})

SeqsUpTo(S, n) == UNION {[1..k -> S] : k \in 0..n}
SetsUpTo(S, n) == {R \in SUBSET S : Cardinality(R) <= n}

\* .bg-chapter markers: data-idx is read by no controller that uses it
GlobalMarkerAttrs == [idx : {""}, bg : URLs, tint : TintAttrs, height : {NoHeight}]
\* A first marker, then the other markers as a set: the order of the others
\* and a repeated marker make no difference to any controller.
GlobalPages ==
  {<<>>} \cup
  {<<f>> \o SeqOf(R) : f \in GlobalMarkerAttrs,
                       R \in SetsUpTo(GlobalMarkerAttrs, MaxGlobalMarkers - 1)}

\* authored .chapter markers, as a set (no controller depends on their
\* order); data-tint is read by no controller
ChapterMarkerAttrs ==
  [idx : {"", "1", "2"}, bg : {EMPTY, BLACK, SHORT}, tint : Tints,
   height : {NoHeight}]
ChapterPages == {SeqOf(R) : R \in SetsUpTo(ChapterMarkerAttrs, MaxChapterMarkers)}

\* .chap-content panels: data-idx missing, unique or duplicated
PanelIdx == {Null, "1", "2"}
IdxRank(idx) == IF idx = Null THEN 0 ELSE IF idx = "1" THEN 1 ELSE 2
\* Beside authored markers the panels' data-bg is never read and their order
\* makes no difference: one order stands for every permutation.
PanelPages ==
  {ps \in SeqsUpTo([idx : PanelIdx, bg : {EMPTY}, act : {FALSE}], MaxPanels) :
     \A i \in 1..(Len(ps) - 1) : IdxRank(ps[i].idx) <= IdxRank(ps[i + 1].idx)}
\* Without authored markers one is synthesized per panel, from its position
\* and its data-bg.
SynthesisPages ==
  SeqsUpTo([idx : PanelIdx, bg : {EMPTY, WHITE}, act : {FALSE}], MaxPanels)

NoLayers == [l \in Layers |-> FALSE]
NoImages == [l \in Layers |-> EMPTY]
\* authored layers carry the classes the bootstrap gives the ones it creates
FirstActive(has) == [l \in Layers |-> has[l] /\ l = "A"]

InitCommon ==
  /\ pc = "load"
  /\ prefersReduced \in BOOLEAN
  /\ gImg = NoImages
  /\ gTint = ""
  /\ cImg = NoImages
  /\ useA = [c \in Controllers |-> TRUE]
  /\ observing = [c \in Controllers |-> FALSE]
  /\ preloads = <<>>
  /\ inflight = FALSE
  /\ ev = NoEvent

\* pages without a .chapters block
InitGlobal ==
  /\ InitCommon
  /\ globalRoot \in BOOLEAN
  /\ gHas \in IF globalRoot THEN [Layers -> BOOLEAN] ELSE {NoLayers}
  /\ overlay \in IF globalRoot THEN BOOLEAN ELSE {FALSE}
  /\ gAct = FirstActive(gHas)
  /\ globalMarkers \in GlobalPages
  /\ chapters = FALSE
  /\ cHas = NoLayers
  /\ cAct = NoLayers
  /\ dsActive = ""
  /\ panels = <<>>
  /\ markers = <<>>

\* pages with a .chapters block and no .bg-chapter marker
InitChapters ==
  /\ InitCommon
  /\ globalRoot = FALSE
  /\ gHas = NoLayers
  /\ overlay = FALSE
  /\ gAct = NoLayers
  /\ globalMarkers = <<>>
  /\ chapters = TRUE
  /\ cHas \in [Layers -> BOOLEAN]
  /\ cAct = FirstActive(cHas)
  /\ dsActive \in {"", "2"}
  /\ markers \in ChapterPages
  /\ panels \in IF markers = <<>> THEN SynthesisPages ELSE PanelPages

\* one page with both blocks: the default markers of the first two mapped
\* sections, and two chapters that share an image; its markers are authored
\* with or without a height
InitBoth ==
  /\ InitCommon
  /\ globalRoot = FALSE
  /\ gHas = NoLayers
  /\ overlay = FALSE
  /\ gAct = NoLayers
  /\ \E h \in AuthoredHeights :
       /\ globalMarkers =
            <<[idx |-> "", bg |-> BLACK, tint |-> "rgba(59,130,246,.10)", height |-> h],
              [idx |-> "", bg |-> WHITE, tint |-> NoTint, height |-> h]>>
       /\ markers =
            <<[idx |-> "1", bg |-> BLACK, tint |-> "rgba(59,130,246,.10)", height |-> h],
              [idx |-> "2", bg |-> SHORT, tint |-> "rgba(59,130,246,.10)", height |-> h]>>
  /\ chapters = TRUE
  /\ cHas = NoLayers
  /\ cAct = NoLayers
  /\ dsActive = ""
  /\ panels = <<[idx |-> "1", bg |-> EMPTY, act |-> FALSE],
                [idx |-> "2", bg |-> EMPTY, act |-> FALSE]>>

\* one page whose markers carry the tints of the first two mapped sections,
\* and a third marker without tint
InitTints ==
  /\ InitCommon
  /\ globalRoot = FALSE
  /\ gHas = NoLayers
  /\ overlay = FALSE
  /\ gAct = NoLayers
  /\ globalMarkers =
       <<[idx |-> "", bg |-> BLACK, tint |-> "rgba(59,130,246,.10)", height |-> NoHeight],
         [idx |-> "", bg |-> WHITE, tint |-> "rgba(139,92,246,.10)", height |-> NoHeight],
         [idx |-> "", bg |-> SHORT, tint |-> NoTint, height |-> NoHeight]>>
  /\ chapters = FALSE
  /\ cHas = NoLayers
  /\ cAct = NoLayers
  /\ dsActive = ""
  /\ panels = <<>>
  /\ markers = <<>>

Init == InitGlobal \/ InitChapters \/ InitBoth \/ InitTints

(* ------------------------- the script, on load ------------------------ *)
\* The document as the script sees it: d.x is the variable x.
Document ==
  [globalRoot |-> globalRoot, gHas |-> gHas, overlay |-> overlay, gImg |-> gImg,
   gAct |-> gAct, globalMarkers |-> globalMarkers, chapters |-> chapters,
   cHas |-> cHas, cAct |-> cAct, dsActive |-> dsActive, panels |-> panels,
   markers |-> markers, observing |-> observing, preloads |-> preloads]

\* bootstrap 0b and 0d: create the layers a page lacks
bootstrap(d) ==
  LET d1 == IF ~d.globalRoot
            THEN [d EXCEPT !.globalRoot = TRUE,
                           !.gHas = [l \in Layers |-> TRUE],
                           !.gAct = [l \in Layers |-> l = "A"],
                           !.overlay = TRUE]
            ELSE d
  IN  IF d1.chapters /\ ~d1.cHas["A"] /\ ~d1.cHas["B"]
      THEN [d1 EXCEPT !.cHas = [l \in Layers |-> TRUE],
                      !.cAct = [l \in Layers |-> l = "A"]]
      ELSE d1

\* first copy of scrollDrivenBackground: which observers it attaches
scrollDrivenBackground1(d) ==
  IF prefersReduced THEN d
  ELSE [d EXCEPT
         !.observing["G1"] = /\ d.globalRoot /\ Len(d.globalMarkers) > 0
                             /\ d.gHas["A"] /\ d.gHas["B"],
         !.observing["C1"] = /\ d.chapters /\ d.cHas["A"] /\ d.cHas["B"]
                             /\ Len(d.markers) > 0]

\* preload(url): the Image requests it starts
preload(url) == IF Falsy(url) THEN <<>> ELSE <<url>>

\* initFirstBG handed the selector of the layer that starts hidden
initFirstBGHiddenLayer(d) ==
  IF Len(d.globalMarkers) > 0 /\ d.globalRoot /\ d.gHas["B"]
     /\ ~Falsy(d.globalMarkers[1].bg)
  THEN [d EXCEPT !.gImg["B"] = CssUrl(d.globalMarkers[1].bg),
                 !.preloads = @ \o preload(d.globalMarkers[1].bg)]
  ELSE d

initFirstBG(d) ==
  IF Len(d.globalMarkers) > 0 /\ d.globalRoot /\ d.gHas["A"]
     /\ ~Falsy(d.globalMarkers[1].bg)
  THEN [d EXCEPT !.gImg["A"] = CssUrl(d.globalMarkers[1].bg),
                 !.preloads = @ \o preload(d.globalMarkers[1].bg)]
  ELSE d

\* if (!m.style.height) m.style.height = '120px', for each marker
DefaultHeights(ms) ==
  [i \in DOMAIN ms |->
     [ms[i] EXCEPT !.height = IF FalsyAttr(@) THEN "120px" ELSE @]]

\* globalBG without `if (!(layerA && layerB)) return`
globalBGUnchecked(d) ==
  IF ~(d.globalRoot /\ Len(d.globalMarkers) > 0) THEN d
  ELSE [initFirstBG(d) EXCEPT !.globalMarkers = DefaultHeights(@),
                              !.observing["G2"] = TRUE]

\* second copy, variant A, up to io.observe
globalBG(d) ==
  IF ~(d.globalRoot /\ Len(d.globalMarkers) > 0) THEN d
  ELSE IF ~(d.gHas["A"] /\ d.gHas["B"]) THEN d
  ELSE [initFirstBG(d) EXCEPT !.globalMarkers = DefaultHeights(@),
                              !.observing["G2"] = TRUE]

\* classList.toggle without its force argument, on the matching panels only
setActivePanelToggles(ps, idx) ==
  [dsActive |-> idx,
   panels |-> [i \in DOMAIN ps |->
                 [ps[i] EXCEPT !.act = IF ps[i].idx = idx THEN ~@ ELSE @]]]

\* setActivePanel(idx): the dataset value and the panels it leaves
setActivePanel(ps, idx) ==
  [dsActive |-> idx,
   panels |-> [i \in DOMAIN ps |-> [ps[i] EXCEPT !.act = (ps[i].idx = idx)]]]

\* (i % 2 === 0) taken on the 1-based position
fallbackFromOne(i) == IF i % 2 = 0 THEN BLACK ELSE WHITE

\* the alternating default image of the i-th panel (i counted from 1)
fallback(i) == IF (i - 1) % 2 = 0 THEN BLACK ELSE WHITE

\* one .chapter marker per panel, when the page has none
Synthesize(d) ==
  IF Len(d.markers) = 0 /\ Len(d.panels) > 0
  THEN [d EXCEPT
         !.panels = [i \in DOMAIN d.panels |->
                       [d.panels[i] EXCEPT
                          !.idx = IF FalsyAttr(@) THEN IdxStr(i) ELSE @]],
         !.markers = [i \in DOMAIN d.panels |->
                       [idx |-> IdxStr(i),
                        bg |-> IF Falsy(d.panels[i].bg) THEN fallback(i)
                                                       ELSE d.panels[i].bg,
                        tint |-> NoTint,
                        height |-> "140vh"]]]
  ELSE d

\* second copy, variant B, up to io2.observe
chaptersBG(d) ==
  IF ~d.chapters THEN d
  ELSE LET d1 == [d EXCEPT
                    !.cAct = [l \in Layers |->
                                IF d.cHas[l] THEN d.cAct[l] ELSE l = "A"],
                    !.cHas = [l \in Layers |-> TRUE]]
           d2 == Synthesize(d1)
           first == IF FalsyAttr(d2.dsActive) THEN "1" ELSE d2.dsActive
           set == setActivePanel(d2.panels, first)
       IN  IF Len(d2.markers) = 0 THEN d2
           ELSE [d2 EXCEPT !.dsActive = set.dsActive,
                           !.panels = set.panels,
                           !.observing["C2"] = TRUE]

\* the second copy without its first line
scrollDrivenBackground2Unguarded(d) == chaptersBG(globalBG(d))

\* second copy of scrollDrivenBackground
scrollDrivenBackground2(d) ==
  IF prefersReduced THEN d ELSE chaptersBG(globalBG(d))

\* The whole script runs in one task when the page loads: first copy, then
\* second copy; no notification is delivered before it ends.
Load ==
  /\ pc = "load"
  /\ pc' = "ready"
  /\ LET d == scrollDrivenBackground2(bootstrap(
                scrollDrivenBackground1(bootstrap(Document))))
     IN  /\ globalRoot' = d.globalRoot
         /\ gHas' = d.gHas
         /\ overlay' = d.overlay
         /\ gImg' = d.gImg
         /\ gAct' = d.gAct
         /\ globalMarkers' = d.globalMarkers
         /\ chapters' = d.chapters
         /\ cHas' = d.cHas
         /\ cAct' = d.cAct
         /\ dsActive' = d.dsActive
         /\ panels' = d.panels
         /\ markers' = d.markers
         /\ observing' = d.observing
         /\ preloads' = d.preloads
         /\ inflight' = (inflight \/ d.preloads # <<>>)
  /\ ev' = [NoEvent EXCEPT !.kind = "load"]
  /\ UNCHANGED <<prefersReduced, gTint, cImg, useA>>

(* ------------------------ the observer callbacks ---------------------- *)
\* one useA per copy of the script, shared by its two variants
FlipFlagShared(flags, c) ==
  LET copy(k) == IF k \in {"G1", "C1"} THEN 1 ELSE 2
  IN  [k \in Controllers |-> IF copy(k) = copy(c) THEN ~flags[k] ELSE flags[k]]

\* useA = !useA, on the closure variable of controller c
FlipFlag(flags, c) == [flags EXCEPT ![c] = ~@]

\* (active.style.backgroundImage || '').includes(url)
AlreadyShowing(style, url) == Includes(style, url)

\* inactive.style.backgroundImage = `url('${url}')`
SwapImage(img, flag, url) == [img EXCEPT ![InactiveOf(flag)] = CssUrl(url)]

\* the swap without its classList.remove
SwapClassAddOnly(act, flag) == [act EXCEPT ![InactiveOf(flag)] = TRUE]
\* inactive.classList.add('is-active'); active.classList.remove('is-active')
SwapClass(act, flag) ==
  [[act EXCEPT ![InactiveOf(flag)] = TRUE] EXCEPT ![ActiveOf(flag)] = FALSE]

\* a tint that is written whatever the marker carries
SetTintAlways(tint) == IF overlay THEN tint ELSE gTint

\* if (overlay && tint) overlay.style.setProperty('--bg-tint', tint)
SetTint(tint) == IF overlay /\ ~FalsyAttr(tint) THEN tint ELSE gTint

\* first copy, variant A: one entry of the observer callback
globalIO1(m, isIntersecting) ==
  /\ pc = "ready"
  /\ observing["G1"]
  /\ IF NotEntered(isIntersecting) \/ Falsy(m.bg)
     THEN UNCHANGED <<gImg, gAct, gTint, useA>>
     ELSE IF AlreadyShowing(gImg[ActiveOf(useA["G1"])], m.bg)
     THEN /\ gTint' = SetTint(m.tint)
          /\ UNCHANGED <<gImg, gAct, useA>>
     ELSE /\ gImg' = SwapImage(gImg, useA["G1"], m.bg)
          /\ gAct' = SwapClass(gAct, useA["G1"])
          /\ useA' = FlipFlag(useA, "G1")
          /\ gTint' = SetTint(m.tint)
  /\ preloads' = <<>>
  /\ inflight' = inflight
  /\ ev' = Event("G1", isIntersecting, m)
  /\ UNCHANGED <<pc, prefersReduced, domVars, observing, cImg, cAct, dsActive>>

\* second copy, variant A (globalBG): one entry of the observer callback
globalIO2(m, isIntersecting) ==
  /\ pc = "ready"
  /\ observing["G2"]
  /\ IF NotEntered(isIntersecting) \/ Falsy(m.bg)
     THEN /\ preloads' = <<>>
          /\ UNCHANGED <<gImg, gAct, gTint, useA>>
     ELSE IF AlreadyShowing(gImg[ActiveOf(useA["G2"])], m.bg)
     THEN /\ gTint' = SetTint(m.tint)
          /\ preloads' = <<>>
          /\ UNCHANGED <<gImg, gAct, useA>>
     ELSE /\ preloads' = preload(m.bg)
          /\ gImg' = SwapImage(gImg, useA["G2"], m.bg)
          /\ gAct' = SwapClass(gAct, useA["G2"])
          /\ useA' = FlipFlag(useA, "G2")
          /\ gTint' = SetTint(m.tint)
  /\ inflight' = (inflight \/ preloads' # <<>>)
  /\ ev' = Event("G2", isIntersecting, m)
  /\ UNCHANGED <<pc, prefersReduced, domVars, observing, cImg, cAct, dsActive>>

\* first copy, variant B: one entry of the observer callback
chaptersIO1(m, isIntersecting) ==
  /\ pc = "ready"
  /\ observing["C1"]
  /\ IF NotEntered(isIntersecting) \/ Falsy(m.bg)
     THEN UNCHANGED <<cImg, cAct, useA, dsActive>>
     ELSE IF AlreadyShowing(cImg[ActiveOf(useA["C1"])], m.bg)
     THEN UNCHANGED <<cImg, cAct, useA, dsActive>>
     ELSE /\ cImg' = SwapImage(cImg, useA["C1"], m.bg)
          /\ cAct' = SwapClass(cAct, useA["C1"])
          /\ useA' = FlipFlag(useA, "C1")
          /\ dsActive' = m.idx
  /\ preloads' = <<>>
  /\ inflight' = inflight
  /\ ev' = Event("C1", isIntersecting, m)
  /\ UNCHANGED <<pc, prefersReduced, globalRoot, gHas, overlay, globalMarkers,
                 chapters, cHas, panels, markers, observing, gImg, gAct, gTint>>

\* second copy, variant B (chaptersBG): one entry of the observer callback
chaptersIO2(m, isIntersecting) ==
  /\ pc = "ready"
  /\ observing["C2"]
  /\ IF NotEntered(isIntersecting) \/ Falsy(m.bg)
     THEN /\ preloads' = <<>>
          /\ UNCHANGED <<cImg, cAct, useA, dsActive, panels>>
     ELSE IF AlreadyShowing(cImg[ActiveOf(useA["C2"])], m.bg)
     THEN /\ dsActive' = setActivePanel(panels, m.idx).dsActive
          /\ panels' = setActivePanel(panels, m.idx).panels
          /\ preloads' = <<>>
          /\ UNCHANGED <<cImg, cAct, useA>>
     ELSE /\ preloads' = preload(m.bg)
          /\ cImg' = SwapImage(cImg, useA["C2"], m.bg)
          /\ cAct' = SwapClass(cAct, useA["C2"])
          /\ useA' = FlipFlag(useA, "C2")
          /\ dsActive' = setActivePanel(panels, m.idx).dsActive
          /\ panels' = setActivePanel(panels, m.idx).panels
  /\ inflight' = (inflight \/ preloads' # <<>>)
  /\ ev' = Event("C2", isIntersecting, m)
  /\ UNCHANGED <<pc, prefersReduced, globalRoot, gHas, overlay, globalMarkers,
                 chapters, cHas, markers, observing, gImg, gAct, gTint>>

\* A notification for any observed marker may reach any observer at any
\* time: the two copies watch different bands of the viewport, and a jump
\* of the scroll position moves a marker past a band unnoticed.
GlobalIO1 ==
  \E i \in DOMAIN globalMarkers, isIntersecting \in BOOLEAN :
      globalIO1(globalMarkers[i], isIntersecting)
GlobalIO2 ==
  \E i \in DOMAIN globalMarkers, isIntersecting \in BOOLEAN :
      globalIO2(globalMarkers[i], isIntersecting)
ChaptersIO1 ==
  \E i \in DOMAIN markers, isIntersecting \in BOOLEAN :
      chaptersIO1(markers[i], isIntersecting)
ChaptersIO2 ==
  \E i \in DOMAIN markers, isIntersecting \in BOOLEAN :
      chaptersIO2(markers[i], isIntersecting)

\* a preload whose onload and onerror swap the global layers' marks
PreloadSettledSwaps ==
  \E loaded \in BOOLEAN :
      /\ inflight
      /\ inflight' \in BOOLEAN
      /\ preloads' = <<>>
      /\ ev' = [NoEvent EXCEPT !.kind = IF loaded THEN "loaded" ELSE "failed"]
      /\ gAct' = [l \in Layers |-> gHas[l] /\ ~gAct[l]]
      /\ UNCHANGED <<pc, prefersReduced, domVars, observing, useA,
                     gImg, gTint, cImg, cAct, dsActive>>

\* An Image request settles, loaded or failed.  preload keeps no reference
\* to the Image and sets no onload or onerror: nothing runs when it settles.
\* Other requests may be left unsettled or not.
PreloadSettled ==
  \E loaded \in BOOLEAN :
      /\ inflight
      /\ inflight' \in BOOLEAN
      /\ preloads' = <<>>
      /\ ev' = [NoEvent EXCEPT !.kind = IF loaded THEN "loaded" ELSE "failed"]
      /\ UNCHANGED <<pc, prefersReduced, domVars, observing, useA,
                     gImg, gAct, gTint, cImg, cAct, dsActive>>

Next == Load \/ GlobalIO1 \/ GlobalIO2 \/ ChaptersIO1 \/ ChaptersIO2

Spec == Init /\ [][Next]_vars

\* The pages with .bg-chapter markers, with or without a .chapters block,
\* followed together with the settling of their Image requests.
InitPreload == InitGlobal \/ InitBoth
NextPreload == Next \/ PreloadSettled
SpecPreload == InitPreload /\ [][NextPreload]_vars

(* ============================== the claims ============================ *)
GlobalCtl == {"G1", "G2"}
ChapterCtl == {"C1", "C2"}
\* an entry notification whose marker carries an image
IsEntry(e) == e.kind = "entry" /\ e.url # EMPTY
\* the images of the layers that carry class is-active
ShownGlobal == {gImg[l] : l \in {k \in Layers : gAct[k]}}
ShownChapters == {cImg[l] : l \in {k \in Layers : cAct[k]}}

\* C1: wherever a block has both of its layers, exactly one of the two
\* carries is-active once the script has run, whatever notifications follow.
C1_ExactlyOneActive ==
  pc = "ready" =>
    /\ (globalRoot /\ gHas["A"] /\ gHas["B"]) => Cardinality({l \in Layers : gAct[l]}) = 1
    /\ (chapters /\ cHas["A"] /\ cHas["B"]) => Cardinality({l \in Layers : cAct[l]}) = 1
\* the second global layer was swapped in by G2 while G1 still holds useA
C1_Witness ==
  /\ pc = "ready" /\ ev.kind = "entry"
  /\ gAct["B"] /\ ~gAct["A"] /\ useA["G1"] /\ ~useA["G2"]

\* C2: a notification that changes a layer's image changes a layer that does
\* not carry is-active when it is written.
C2_NeverWritesVisibleLayer ==
  [][pc = "ready" =>
       \A l \in Layers : /\ gImg'[l] # gImg[l] => ~gAct[l]
                         /\ cImg'[l] # cImg[l] => ~cAct[l]]_vars

\* C3: an entry notification from a marker without an image changes no
\* layer, flag, tint or panel and starts no preload.
C3_EmptyUrlIgnored ==
  [][(pc = "ready" /\ ev'.kind = "entry" /\ ev'.url = EMPTY) =>
       /\ UNCHANGED <<gImg, gAct, gTint, cImg, cAct, useA, dsActive, panels>>
       /\ preloads' = <<>>]_vars
\* such a notification, carrying a tint, reached the second copy's global
\* observer, and one carrying an index reached its chapters observer
C3_Witness ==
  /\ pc = "ready" /\ ev.kind = "entry" /\ ev.url = EMPTY
  /\ \/ ev.ctl = "G2" /\ ev.tint # NoTint /\ overlay
     \/ ev.ctl = "C2" /\ ev.idx = "2" /\ dsActive = "1"

\* C4: of two entry notifications in a row for one block that carry the same
\* image, the second changes neither the image shown nor the active layer.
C4_SameImageOnce ==
  [][(pc = "ready" /\ IsEntry(ev) /\ IsEntry(ev') /\ ev'.url = ev.url) =>
       /\ (ev.ctl \in GlobalCtl /\ ev'.ctl \in GlobalCtl) =>
             (ShownGlobal' = ShownGlobal /\ gAct' = gAct)
       /\ (ev.ctl \in ChapterCtl /\ ev'.ctl \in ChapterCtl) =>
             (ShownChapters' = ShownChapters /\ cAct' = cAct)]_vars

\* C5: a controller swaps on an entry notification exactly when the image
\* on the layer its flag calls active is not exactly url('<imageURL>').
C5_SwapIffNotEqual ==
  [][(pc = "ready" /\ IsEntry(ev')) =>
       LET c == ev'.ctl
           img == IF c \in GlobalCtl THEN gImg ELSE cImg
       IN  (useA'[c] # useA[c]) <=> (img[ActiveOf(useA[c])] # CssUrl(ev'.url))]_vars

\* C6: the image on the layer that carries is-active is the image of the
\* latest entry notification that had one; other steps leave it alone.
C6_ShownIsLatestEntry ==
  [][pc = "ready" =>
       /\ IF IsEntry(ev') /\ ev'.ctl \in GlobalCtl
          THEN ShownGlobal' = {CssUrl(ev'.url)}
          ELSE ShownGlobal' = ShownGlobal
       /\ IF IsEntry(ev') /\ ev'.ctl \in ChapterCtl
          THEN ShownChapters' = {CssUrl(ev'.url)}
          ELSE ShownChapters' = ShownChapters]_vars

\* C7: in the global block, with layer x alone active and showing u, an
\* entry notification with image v # u and tint t leaves the other layer
\* alone active showing v, x still holding u, the handling controller's flag
\* on the other layer, and the overlay tint t.
C7_SwapPostcondition ==
  [][\A x \in Layers :
       LET y == IF x = "A" THEN "B" ELSE "A" IN
       (/\ pc = "ready" /\ IsEntry(ev') /\ ev'.ctl \in GlobalCtl
        /\ ev'.tint # NoTint /\ overlay
        /\ gAct[x] /\ ~gAct[y] /\ gImg[x] # CssUrl(ev'.url))
       => /\ gAct'[y] /\ gImg'[y] = CssUrl(ev'.url)
          /\ ~gAct'[x] /\ gImg'[x] = gImg[x]
          /\ ActiveOf(useA'[ev'.ctl]) = y
          /\ gTint' = ev'.tint]_vars

\* C8: in the global block an entry notification with an image and a tint
\* sets the overlay tint; when its image is the one the active layer shows,
\* the images, the is-active classes and the controller's flag stay as they
\* were.
C8_TintIndependent ==
  [][(pc = "ready" /\ IsEntry(ev') /\ ev'.ctl \in GlobalCtl
      /\ ev'.tint # NoTint /\ overlay) =>
       /\ gTint' = ev'.tint
       /\ ShownGlobal = {CssUrl(ev'.url)} =>
            UNCHANGED <<gImg, gAct, useA>>]_vars

\* C9: in the chapters block an entry notification with an image and index
\* i records i as the current index and leaves exactly the panels of index i
\* marked current, swap or no swap.
C9_PanelFollowsSegment ==
  [][(pc = "ready" /\ IsEntry(ev') /\ ev'.ctl \in ChapterCtl /\ ev'.idx # "") =>
       /\ dsActive' = ev'.idx
       /\ \A i \in DOMAIN panels' :
             panels'[i].act <=> (panels'[i].idx = ev'.idx)]_vars

\* C10: once chaptersBG has run on a block with panels, exactly one panel is
\* marked current.
C10_ExactlyOnePanelCurrent ==
  (pc = "ready" /\ observing["C2"] /\ Len(panels) > 0) =>
     Cardinality({i \in DOMAIN panels : panels[i].act}) = 1

\* the state the script leaves, before any notification
AfterSetup == pc = "ready" /\ ev.kind = "load"

\* C11: when chaptersBG has run on a block with panels, and before any
\* notification, the first panel is the one marked current, whatever
\* data-active and data-idx values the page carried.
C11_FirstPanelCurrentAfterSetup ==
  (AfterSetup /\ observing["C2"] /\ Len(panels) > 0) =>
     \A i \in DOMAIN panels : panels[i].act <=> (i = 1)

\* the indices setActivePanel is called with on the pages checked, and one
\* that no panel carries
IndexArgs == {"1", "2", "3"}

\* C12: on every panel state the page reaches, calling setActivePanel a
\* second time with the same index leaves data-active and every panel's
\* current mark as the first call left them.
C12_SetActivePanelIdempotent ==
  (pc = "ready" /\ observing["C2"]) =>
     \A idx \in IndexArgs :
        LET once == setActivePanel(panels, idx)
        IN  setActivePanel(once.panels, idx) = once
\* the chapters observer has just called setActivePanel("2") on two panels,
\* moving the mark from the first to the second
C12_Witness ==
  /\ pc = "ready" /\ ev.ctl = "C2" /\ IsEntry(ev) /\ ev.idx = "2"
  /\ dsActive = "2" /\ Len(panels) = 2
  /\ ~panels[1].act /\ panels[2].act

\* C13: when globalBG has run and the first .bg-chapter marker carries an
\* image, then before any notification the layer that carries is-active
\* shows that image and the script has started a preload of it.
C13_GlobalInitialPaint ==
  (AfterSetup /\ observing["G2"] /\ ~Falsy(globalMarkers[1].bg)) =>
     /\ ShownGlobal = {CssUrl(globalMarkers[1].bg)}
     /\ \E i \in DOMAIN preloads : preloads[i] = globalMarkers[1].bg
     /\ inflight
\* the script has just run on a page whose first marker carries black.jpeg
C13_Witness ==
  /\ AfterSetup /\ observing["G2"] /\ globalMarkers[1].bg = BLACK
  /\ gAct["A"] /\ gImg["A"] = CssUrl(BLACK) /\ preloads = <<BLACK>>

\* C14: on a page loaded with prefers-reduced-motion no observer is ever
\* attached, and no step leaves a layer image, an is-active mark, the tint,
\* data-active, a panel mark or a flag other than the bootstrap alone leaves
\* it; no preload is started.
C14_ReducedMotionInert ==
  [][prefersReduced =>
       LET d == bootstrap(Document)
       IN  /\ observing' = [c \in Controllers |-> FALSE]
           /\ gImg' = d.gImg /\ gAct' = d.gAct /\ cAct' = d.cAct
           /\ dsActive' = d.dsActive /\ panels' = d.panels
           /\ UNCHANGED <<cImg, gTint, useA>>
           /\ preloads' = <<>> /\ ~inflight']_vars
\* the script has run with reduced motion on the page that has both blocks,
\* markers and panels
C14_Witness ==
  /\ AfterSetup /\ prefersReduced
  /\ chapters /\ Len(globalMarkers) > 0 /\ Len(markers) > 0 /\ Len(panels) > 0
  /\ gHas["A"] /\ gHas["B"] /\ cHas["A"] /\ cHas["B"]

\* C15: a notification that a marker has left the trigger band changes no
\* layer image, is-active mark, flag, tint, data-active or panel mark of
\* either block, and starts no preload.
C15_ExitChangesNothing ==
  [][(pc = "ready" /\ ev'.kind = "exit") =>
       /\ UNCHANGED <<gImg, gAct, gTint, cImg, cAct, useA, dsActive, panels>>
       /\ preloads' = <<>>
       /\ inflight' = inflight]_vars
\* the second copy's observers were told that a marker left the band whose
\* image no visible layer shows: a .bg-chapter with a tint the overlay does
\* not have, or a .chapter of a panel that is not the current one
C15_Witness ==
  /\ pc = "ready" /\ ev.kind = "exit" /\ ev.url # EMPTY
  /\ \/ /\ ev.ctl = "G2" /\ CssUrl(ev.url) \notin ShownGlobal
        /\ overlay /\ ev.tint # NoTint /\ ev.tint # gTint
     \/ /\ ev.ctl = "C2" /\ CssUrl(ev.url) \notin ShownChapters
        /\ ev.idx # "" /\ ev.idx # dsActive

\* C16: each block's pair of layers is written by at most one observer: no
\* two controllers, each with its own useA, are attached to one block.
C16_SingleOwner ==
  /\ ~(observing["G1"] /\ observing["G2"])
  /\ ~(observing["C1"] /\ observing["C2"])

\* C17: on a page that has both blocks with their markers and layers the
\* script attaches an observer to each; a notification of a .bg-chapter
\* observer leaves the chapters layers, flags, data-active and panel marks
\* unchanged, and a notification of a .chapter observer leaves the global
\* layers, flags and tint unchanged, in whatever order they arrive.
C17_TopologiesIndependent ==
  [][/\ (/\ pc' = "ready" /\ ~prefersReduced
         /\ globalRoot' /\ gHas'["A"] /\ gHas'["B"] /\ Len(globalMarkers') > 0
         /\ chapters' /\ Len(markers') > 0)
        => (observing'["G2"] /\ observing'["C2"])
     /\ (pc = "ready" /\ ev'.ctl \in GlobalCtl)
        => /\ UNCHANGED <<cImg, cAct, dsActive, panels>>
           /\ \A c \in ChapterCtl : useA'[c] = useA[c]
     /\ (pc = "ready" /\ ev'.ctl \in ChapterCtl)
        => /\ UNCHANGED <<gImg, gAct, gTint>>
           /\ \A c \in GlobalCtl : useA'[c] = useA[c]]_vars
\* on the page with both blocks, each block has swapped to its second layer
\* and a .chapter notification has just swapped the chapters back
C17_Witness ==
  /\ pc = "ready" /\ observing["G2"] /\ observing["C2"]
  /\ ev.ctl \in ChapterCtl /\ IsEntry(ev)
  /\ gAct["B"] /\ gImg["B"] # EMPTY
  /\ cAct["A"] /\ cImg["A"] # EMPTY /\ cImg["B"] # EMPTY

\* C19: a notification that starts a preload completes its swap in the same
\* step, while the request is still unsettled: the layer its controller held
\* as inactive shows the image and carries is-active, the other layer has
\* lost the mark and the flag is flipped.  When a request settles, loaded or
\* failed, no layer image, mark, flag, tint, data-active or panel mark changes.
C19_PreloadFireAndForget ==
  [][pc = "ready" =>
       /\ (ev'.kind = "entry" /\ preloads' # <<>>) =>
            /\ inflight' /\ preloads' = <<ev'.url>>
            /\ useA'[ev'.ctl] # useA[ev'.ctl]
            /\ LET shown == InactiveOf(useA[ev'.ctl])
                   hidden == ActiveOf(useA[ev'.ctl])
               IN  IF ev'.ctl \in GlobalCtl
                   THEN gImg'[shown] = CssUrl(ev'.url) /\ gAct'[shown] /\ ~gAct'[hidden]
                   ELSE cImg'[shown] = CssUrl(ev'.url) /\ cAct'[shown] /\ ~cAct'[hidden]
       /\ ev'.kind \in {"loaded", "failed"} =>
            UNCHANGED <<gImg, gAct, gTint, cImg, cAct, useA, dsActive, panels>>]_vars
\* a request has failed after both blocks swapped to their second layer,
\* while another request is still unsettled
C19_Witness ==
  /\ pc = "ready" /\ ev.kind = "failed" /\ inflight
  /\ gAct["B"] /\ gImg["B"] # EMPTY /\ ~useA["G2"]
  /\ cAct["B"] /\ cImg["B"] # EMPTY /\ ~useA["C2"]

\* what each variant needs, on the page d the bootstrap leaves
GlobalLacks(d) ==
  ~d.globalRoot \/ Len(d.globalMarkers) = 0 \/ ~d.gHas["A"] \/ ~d.gHas["B"]
PinnedLacks(d) == ~d.chapters \/ (Len(d.markers) = 0 /\ Len(d.panels) = 0)
\* the variant that lacks nothing attaches its observer; the one that lacks
\* something attaches none, and without an observer nothing of its block
\* changes afterwards
OtherInitialises(d) ==
  /\ ~GlobalLacks(d) => observing'["G2"]
  /\ ~PinnedLacks(d) => observing'["C2"]
  /\ GlobalLacks(d) => \A c \in GlobalCtl : ~observing'[c]
  /\ PinnedLacks(d) => \A c \in ChapterCtl : ~observing'[c]
StaysInert ==
  /\ observing' = observing
  /\ (\A c \in GlobalCtl : ~observing[c]) => UNCHANGED <<gImg, gAct, gTint>>
  /\ (\A c \in ChapterCtl : ~observing[c]) =>
        UNCHANGED <<cImg, cAct, dsActive, panels>>

Synthesized ==
  Len(markers) > 0 /\ \A i \in DOMAIN markers : markers[i].height = "140vh"

\* C21: when chaptersBG runs on a block with panels and no .chapter marker it
\* leaves one marker per panel, in panel order, whose data-idx is the panel's
\* position counted from 1 and whose data-bg is the panel's data-bg, or else
\* black.jpeg at odd and white.jpeg at even positions; markers the page has
\* are left as they are and none is added.
C21_MarkerSynthesis ==
  [][(pc = "load" /\ ~prefersReduced /\ chapters) =>
       IF Len(markers) = 0
       THEN /\ Len(markers') = Len(panels)
            /\ \A i \in DOMAIN panels :
                  /\ markers'[i].idx = IdxStr(i)
                  /\ markers'[i].bg =
                       IF panels[i].bg # EMPTY THEN panels[i].bg
                       ELSE IF i % 2 = 1 THEN BLACK ELSE WHITE
       ELSE markers' = markers]_vars
\* two markers synthesized from a first panel with its own image and a
\* second panel without one
C21_Witness ==
  /\ AfterSetup /\ Synthesized /\ Len(panels) = 2 /\ Len(markers) = 2
  /\ panels[1].bg = WHITE /\ markers[1].bg = WHITE /\ markers[1].idx = "1"
  /\ panels[2].bg = EMPTY /\ markers[2].bg = WHITE /\ markers[2].idx = "2"

\* every marker of the list has a height
Sized(ms) == \A i \in DOMAIN ms : ~FalsyAttr(ms[i].height)

\* C22: when globalBG or chaptersBG has started to observe its markers,
\* authored or synthesized, each of them has a height.  (Heights change
\* only while the script runs, and observing is the last thing either
\* function does.)
C22_ObservedMarkersHaveHeight ==
  pc = "ready" =>
    /\ observing["G2"] => Sized(globalMarkers)
    /\ observing["C2"] => Sized(markers)

\* C23: an entry notification of a .chapter marker that carries an image
\* and a data-tint sets the overlay tint to that tint, whether the image is
\* swapped in or already shown.
C23_PinnedTintUpdated ==
  [][(pc = "ready" /\ IsEntry(ev') /\ ev'.ctl \in ChapterCtl
        /\ ev'.tint # NoTint) =>
       gTint' = ev'.tint]_vars

\* C24: when chaptersBG has run and the first .chapter marker carries an
\* image, then before any notification the chapters layer that carries
\* is-active shows that image and the script has started a preload of it.
C24_PinnedInitialPaint ==
  (AfterSetup /\ observing["C2"] /\ ~Falsy(markers[1].bg)) =>
     /\ ShownChapters = {CssUrl(markers[1].bg)}
     /\ \E i \in DOMAIN preloads : preloads[i] = markers[1].bg

\* C25: the script's run starts one preload, of the image it seeds, or none
\* when it seeds none; afterwards a notification whose controller performs a
\* swap (it flips its flag) starts exactly one preload, of the marker's
\* image, and every other step, the settling of a request included, starts
\* none.
C25_PreloadOncePerSwap ==
  [][IF pc = "load"
     THEN preloads' = IF gImg' = NoImages THEN <<>>
                      ELSE <<globalMarkers[1].bg>>
     ELSE IF IsEntry(ev') /\ useA'[ev'.ctl] # useA[ev'.ctl]
          THEN preloads' = <<ev'.url>>
          ELSE preloads' = <<>>]_vars

\* C26: for every controller that observes, the layer its useA names as
\* active is the one layer of its block that carries is-active.
C26_FlagAgreesWithPage ==
  pc = "ready" =>
    /\ \A c \in GlobalCtl :
          observing[c] => (gAct[ActiveOf(useA[c])] /\ ~gAct[InactiveOf(useA[c])])
    /\ \A c \in ChapterCtl :
          observing[c] => (cAct[ActiveOf(useA[c])] /\ ~cAct[InactiveOf(useA[c])])

\* C27: on a block whose markers were synthesized, an entry notification of
\* the marker made for the k-th panel leaves exactly the k-th panel marked
\* current, whatever data-idx the panels were authored with.
C27_SynthesizedMarkerSelectsOwnPanel ==
  [][(pc = "ready" /\ Synthesized /\ IsEntry(ev') /\ ev'.ctl \in ChapterCtl) =>
       \A k \in DOMAIN panels' :
          panels'[k].act <=> (ev'.idx = IdxStr(k))]_vars

\* C28: the overlay tint changes only when a .bg-chapter observer handles an
\* entry notification that carries an image and a tint, and then it becomes
\* that tint; every other step, a swap by a marker without tint included,
\* leaves it as it was.  So the tint is always that of the latest such
\* notification, or unset before the first.
C28_TintSticky ==
  [][gTint' = IF /\ pc = "ready" /\ IsEntry(ev') /\ ev'.ctl \in GlobalCtl
                 /\ ev'.tint # NoTint /\ overlay
              THEN ev'.tint
              ELSE gTint]_vars
\* after a marker with the second tint was handled, the marker without tint
\* has swapped the image and the overlay still has the second tint
C28_Witness ==
  /\ pc = "ready" /\ IsEntry(ev) /\ ev.ctl = "G2" /\ ev.tint = NoTint
  /\ preloads = <<ev.url>>
  /\ gTint = "rgba(139,92,246,.10)"

\* C29: once chaptersBG has run, a panel is marked current exactly when its
\* data-idx equals the block's data-active.
C29_ActiveIndexAgreesWithPanels ==
  (pc = "ready" /\ observing["C2"]) =>
     \A i \in DOMAIN panels : panels[i].act <=> (panels[i].idx = dsActive)

====
